---- MODULE Spec2Model ----
(***************************************************************************)
(* A model of result.py: the extraction pipeline that turns one rental     *)
(* listing page (url, markup) into a fixed-shape record, and the CLI that  *)
(* drives it.                                                              *)
(*                                                                         *)
(* Text is a sequence of one-character tokens.  TLA+ strings are ASCII, so *)
(* each Japanese character the code tests for is written as a token:       *)
(*   "To" "Do" "Fu" "Ken"            the prefecture suffixes               *)
(*   "Shi" "Ku" "Gun" "Machi" "Mura" the municipal suffixes                *)
(*   "Eki" station, "Nen" year, "Slash" the full-width slash               *)
(* and a whole label of the page (a dt text, a dictionary key) is written  *)
(* as one token where the code only compares it for equality.              *)
(* Python's None is the value None below.                                  *)
(***************************************************************************)
EXTENDS Naturals, Sequences, FiniteSets, TLC

VARIABLES
    pc,      \* where the call (or main) stands: "start", "done", "raised", ...
    url,     \* the url argument (sys.argv[1])
    html,    \* the page as fetched: <<markup>>, <<>> before the fetch
    soup,    \* BeautifulSoup(html, "lxml"): the parsed document
    addr,    \* the addr argument of split_japanese_address_simple
    limit,   \* the limit argument of extract_images_basic
    conv,    \* the module global _conv: TRUE when pykakasi was imported
    ret,     \* the value returned (data in main)
    stdout,  \* what main printed, in order
    files,   \* the files main wrote, in order
    status   \* the exit status of main: <<n>>, <<>> while it runs

vars == <<pc, url, html, soup, addr, limit, conv, ret, stdout, files, status>>

None == <<"None">>

\* html before and after fetch_html has returned
NotFetched == <<>>

Fetched(page) == <<page>>

\* the exit status while main runs, and after sys.exit(n) or the end of the process
Running == <<>>

Exit(n) == <<n>>

\* ------------------------------------------------------------ bounds
MaxPieces == 5
MaxAddrLen == 5
MaxItems == 4
MaxImgs == 3
MaxLimit == 2
MaxNameEls == 3
MaxBlocks == 2

\* ------------------------------------------------------- text helpers
Digits == {"0", "1", "2", "3", "4", "5", "6", "7", "8", "9"}

IsDigit(c) == c \in Digits

RECURSIVE Flatten(_)
Flatten(ss) == IF ss = <<>> THEN <<>> ELSE Head(ss) \o Flatten(Tail(ss))

\* sep.join(parts)
RECURSIVE Join(_, _)
Join(parts, sep) ==
    IF parts = <<>> THEN <<>>
    ELSE IF Len(parts) = 1 THEN parts[1]
    ELSE parts[1] \o sep \o Join(Tail(parts), sep)

\* the end of the maximal digit run that starts at i (i - 1 when u[i] is no digit)
RECURSIVE DigitRunEnd(_, _)
DigitRunEnd(u, i) ==
    IF i <= Len(u) /\ IsDigit(u[i]) THEN DigitRunEnd(u, i + 1) ELSE i - 1

\* re.findall(r"\d+", u) from position i on
RECURSIVE FindallDigits(_, _)
FindallDigits(u, i) ==
    IF i > Len(u) THEN <<>>
    ELSE IF IsDigit(u[i])
         THEN LET e == DigitRunEnd(u, i)
              IN <<SubSeq(u, i, e)>> \o FindallDigits(u, e + 1)
         ELSE FindallDigits(u, i + 1)

RECURSIVE SeqsUpTo(_, _)
SeqsUpTo(S, n) ==
    IF n = 0 THEN {<<>>}
    ELSE LET shorter == SeqsUpTo(S, n - 1)
         IN shorter \cup {Append(s, c) : s \in {t \in shorter : Len(t) = n - 1}, c \in S}

MinOf(S) == CHOOSE x \in S : \A y \in S : x <= y

\* the least index of a set of match positions, 0 when there is no match
FirstOf(S) == IF S = {} THEN 0 ELSE MinOf(S)

\* ------------------------------------------------- whitespace, str.strip
NL == "NL"

IsSpace(c) == c \in {" ", NL}

\* the first index from i on that holds no whitespace (Len + 1 when there is none)
RECURSIVE SkipSpaces(_, _)
SkipSpaces(s, i) ==
    IF i <= Len(s) /\ IsSpace(s[i]) THEN SkipSpaces(s, i + 1) ELSE i

RECURSIVE RStrip(_)
RStrip(s) ==
    IF s # <<>> /\ IsSpace(s[Len(s)]) THEN RStrip(SubSeq(s, 1, Len(s) - 1)) ELSE s

Strip(s) == RStrip(SubSeq(s, SkipSpaces(s, 1), Len(s)))

\* r"\d{3}-\d{4}" matched at position i
PostalAt(s, i) ==
    /\ i >= 1 /\ i + 7 <= Len(s)
    /\ \A k \in {i, i + 1, i + 2, i + 4, i + 5, i + 6, i + 7} : IsDigit(s[k])
    /\ s[i + 3] = "-"

\* ------------------------------- split_japanese_address_simple (64-89)
PrefSuffix == {"To", "Do", "Fu", "Ken"}

CitySuffix == {"Shi", "Ku", "Gun", "Machi", "Mura"}

\* re.sub(r"^\s*\d{3}-\d{4}\s*", "", a)
SubLeadingPostal(a) ==
    LET i == SkipSpaces(a, 1)
    IN IF PostalAt(a, i) THEN SubSeq(a, SkipSpaces(a, i + 8), Len(a)) ELSE a

\* re.match(r"(.+?[suffixes])", rest): the end of the match, trying the lazy .+? at
\* lengths j - 1 = 1, 2, ...; "." matches no line break.  0 when there is no match.
RECURSIVE LazyMatchEnd(_, _, _)
LazyMatchEnd(rest, suffixes, j) ==
    IF j > Len(rest) \/ rest[j - 1] = NL THEN 0
    ELSE IF rest[j] \in suffixes THEN j
    ELSE LazyMatchEnd(rest, suffixes, j + 1)

\* a plausible slip: r"(.*?[suffixes])", which lets the suffix be the first character
ReMatchLazyStar(rest, suffixes) ==
    IF rest # <<>> /\ rest[1] \in suffixes THEN 1 ELSE LazyMatchEnd(rest, suffixes, 2)

ReMatchLazy(rest, suffixes) == LazyMatchEnd(rest, suffixes, 2)

split_japanese_address_simple(a0) ==
    LET a == SubLeadingPostal(a0)
        e_pref == ReMatchLazy(a, PrefSuffix)
        prefecture == IF e_pref > 0 THEN SubSeq(a, 1, e_pref) ELSE None
        rest1 == IF e_pref > 0 THEN Strip(SubSeq(a, e_pref + 1, Len(a))) ELSE a
        e_city == ReMatchLazy(rest1, CitySuffix)
        city == IF e_city > 0 THEN SubSeq(rest1, 1, e_city) ELSE None
        rest2 == IF e_city > 0 THEN Strip(SubSeq(rest1, e_city + 1, Len(rest1))) ELSE rest1
    IN [prefecture |-> prefecture,
        city |-> city,
        district |-> None,
        chome_banchi |-> IF rest2 # <<>> THEN rest2 ELSE None]

NoAddrParts ==
    [prefecture |-> None, city |-> None, district |-> None, chome_banchi |-> None]

\* ------------------------------------------------------ the markup model
\* soup is the parsed document: the sequence of its elements in document order.
\* An element has a tag, the selector it answers to besides its tag (sel: a class, an
\* id or an attribute selector, "" when none), its text (get_text, stripped), and by
\* tag: the dt/dd children of a dl (items), the attributes of an img, the string of a
\* script.  A dt/dd item has its name, its text and, for a dd, the texts of its li's.
\* the string of a script element, as json.loads sees it: kind is "none" (no string),
\* "invalid" (not JSON), "other" (JSON, not an object) or "dict"; geo is "absent",
\* "other" (not an object) or "dict", with its latitude and longitude (None when the
\* key is missing or its value falsy)
Json(kind, geo, latitude, longitude) ==
    [kind |-> kind, geo |-> geo, latitude |-> latitude, longitude |-> longitude]

NoString == Json("none", "absent", None, None)

Element(tag, sel, text) ==
    [tag |-> tag, sel |-> sel, text |-> text, items |-> <<>>,
     data_src |-> None, src |-> None, string |-> NoString]

Dl(sel, items) ==
    [tag |-> "dl", sel |-> sel, text |-> <<>>, items |-> items,
     data_src |-> None, src |-> None, string |-> NoString]

Img(data_src, src) ==
    [tag |-> "img", sel |-> "", text |-> <<>>, items |-> <<>>,
     data_src |-> data_src, src |-> src, string |-> NoString]

Script(string) ==
    [tag |-> "script", sel |-> "application/ld+json", text |-> <<>>, items |-> <<>>,
     data_src |-> None, src |-> None, string |-> string]

Dt(text) == [name |-> "dt", text |-> text, li |-> <<>>]

\* a dd that holds text only, and a dd that holds a list of li's
Dd(text) == [name |-> "dd", text |-> text, li |-> <<>>]

DdList(li) == [name |-> "dd", text |-> Join(li, <<" ">>), li |-> li]

EmptySoup == <<>>

\* soup.select_one(selector): the first element with that tag or that class / id /
\* attribute; 0 when there is none
RECURSIVE SelectFrom(_, _, _)
SelectFrom(sp, selector, i) ==
    IF i > Len(sp) THEN 0
    ELSE IF sp[i].tag = selector \/ sp[i].sel = selector THEN i
    ELSE SelectFrom(sp, selector, i + 1)

select_one(sp, selector) == SelectFrom(sp, selector, 1)

\* a Python dict: a function from its keys
EmptyDict == <<>>

\* d[k] = v
DictSet(d, k, v) == (k :> v) @@ d

DictGet(d, k) == IF k \in DOMAIN d THEN d[k] ELSE None

\* Python truthiness of an Optional[str]
Truthy(t) == t # None /\ t # <<>>

\* --------------------------------- get_side_info_map_simple (91-103)
\* a plausible slip: cur is not reset once a dd has consumed it
SideInfoStepNoReset(st, el) ==
    IF el.name = "dt" THEN [out |-> st.out, cur |-> el.text]
    ELSE IF el.name = "dd" /\ Truthy(st.cur)
         THEN [out |-> DictSet(st.out, st.cur, el.text), cur |-> st.cur]
         ELSE st

\* the loop body over dl.find_all(["dt", "dd"]): st is (out, cur)
SideInfoStep(st, el) ==
    IF el.name = "dt" THEN [out |-> st.out, cur |-> el.text]
    ELSE IF el.name = "dd" /\ Truthy(st.cur)
         THEN [out |-> DictSet(st.out, st.cur, el.text), cur |-> None]
         ELSE st

RECURSIVE SideInfoLoop(_, _, _)
SideInfoLoop(items, i, st) ==
    IF i > Len(items) THEN st.out
    ELSE SideInfoLoop(items, i + 1, SideInfoStep(st, items[i]))

get_side_info_map_simple(sp) ==
    LET dl == select_one(sp, "dl.rent_view_side_info")
    IN IF dl = 0 THEN EmptyDict
       ELSE SideInfoLoop(sp[dl].items, 1, [out |-> EmptyDict, cur |-> None])

\* ------------------------------------- extract_property_csv_id (26-33)
RentPrefix == <<"/", "r", "e", "n", "t", "/">>

\* r"/rent/(\d+)/(\d+)" matched at position i: the two groups, or None
RentMatchAt(u, i) ==
    IF i + 5 <= Len(u) /\ SubSeq(u, i, i + 5) = RentPrefix
    THEN LET e1 == DigitRunEnd(u, i + 6)
             e2 == DigitRunEnd(u, e1 + 2)
         IN IF e1 >= i + 6 /\ e1 + 1 <= Len(u) /\ u[e1 + 1] = "/" /\ e2 >= e1 + 2
            THEN <<SubSeq(u, i + 6, e1), SubSeq(u, e1 + 2, e2)>>
            ELSE None
    ELSE None

\* re.search(r"/rent/(\d+)/(\d+)", u): the leftmost match from i on
RECURSIVE RentSearch(_, _)
RentSearch(u, i) ==
    IF i > Len(u) THEN None
    ELSE IF RentMatchAt(u, i) # None THEN RentMatchAt(u, i)
    ELSE RentSearch(u, i + 1)

\* a plausible slip: the /rent/ rule dropped, every digit run joined
csv_id_all_runs(u) ==
    LET nums == FindallDigits(u, 1)
    IN IF nums # <<>> THEN Join(nums, <<"_">>) ELSE None

extract_property_csv_id(u) ==
    LET m == RentSearch(u, 1)
        nums == FindallDigits(u, 1)
    IN IF m # None THEN m[1] \o <<"_">> \o m[2]
       ELSE IF nums # <<>> THEN Join(nums, <<"_">>) ELSE None

\* ---------------------------- extract_building_name_jp_simple (145-162)
BukkenMei == <<"BukkenMei">>

TatemonoMei == <<"TatemonoMei">>

ManshonMei == <<"ManshonMei">>

\* a or b for two Optional[str]: a when it is truthy, else b
Or(a, b) == IF Truthy(a) THEN a ELSE b

\* the bar glyphs of the title pattern: the full-width bar, the bar, the backslash
BarChars == {"FullBar", "|", "\\"}

\* re.split(bars, t)[0]: the text before the first bar
RECURSIVE BeforeFirstBar(_, _)
BeforeFirstBar(t, i) ==
    IF i > Len(t) THEN t
    ELSE IF t[i] \in BarChars THEN SubSeq(t, 1, i - 1)
    ELSE BeforeFirstBar(t, i + 1)

\* soup.select_one("h1") or soup.select_one("h2") or soup.select_one(".rent_view_ttl"):
\* an element is truthy whatever its text, so this is the first that exists
FirstHeader(sp) ==
    IF select_one(sp, "h1") # 0 THEN select_one(sp, "h1")
    ELSE IF select_one(sp, "h2") # 0 THEN select_one(sp, "h2")
    ELSE select_one(sp, ".rent_view_ttl")

extract_building_name_jp_simple(sp) ==
    LET info == get_side_info_map_simple(sp)
        name == Or(Or(DictGet(info, BukkenMei), DictGet(info, TatemonoMei)),
                   DictGet(info, ManshonMei))
        h == FirstHeader(sp)
        title == select_one(sp, "title")
        t == Strip(BeforeFirstBar(sp[title].text, 1))
    IN IF Truthy(name) THEN Strip(name)
       ELSE IF h # 0 /\ sp[h].text # <<>> THEN sp[h].text
       ELSE IF title # 0 /\ t # <<>> THEN t
       ELSE None

\* ------------------------------------------------ urllib.parse.urljoin
\* A URL is a sequence of tokens: "http:" (a scheme with its colon), "//", "/", "[",
\* "]" and the characters of hosts and paths.  urljoin raises ValueError
\* ("Invalid IPv6 URL") when the authority of either argument opens a bracket that
\* it does not close; Raised stands for the exception.
Raised == <<"ValueError">>

HasScheme(u) == u # <<>> /\ u[1] = "http:"

\* where the authority ends (its last index), past the scheme when there is none
NetlocEnd(u) ==
    LET s == IF HasScheme(u) THEN 1 ELSE 0
    IN IF s + 1 <= Len(u) /\ u[s + 1] = "//"
       THEN LET ends == {k \in (s + 1)..Len(u) :
                            \A j \in (s + 2)..k : u[j] # "/"}
            IN CHOOSE k \in ends : \A y \in ends : y <= k
       ELSE s

InvalidIPv6(u) ==
    \E i \in 1..NetlocEnd(u) : u[i] = "[" /\ \A j \in (i + 1)..NetlocEnd(u) : u[j] # "]"

\* the base up to and including the last "/" of its path ("/" added after a bare authority)
BaseDir(base) ==
    LET n == NetlocEnd(base)
        slashes == {k \in (n + 1)..Len(base) : base[k] = "/"}
    IN IF slashes # {} THEN SubSeq(base, 1, CHOOSE k \in slashes : \A y \in slashes : y <= k)
       ELSE IF n > (IF HasScheme(base) THEN 1 ELSE 0) THEN SubSeq(base, 1, n) \o <<"/">>
       ELSE SubSeq(base, 1, n)

urljoin(base, u) ==
    IF base = <<>> THEN u
    ELSE IF u = <<>> THEN base
    ELSE IF InvalidIPv6(base) \/ InvalidIPv6(u) THEN Raised
    ELSE IF HasScheme(u) THEN u
    ELSE IF u[1] = "//" THEN (IF HasScheme(base) THEN <<base[1]>> ELSE <<>>) \o u
    ELSE IF u[1] = "/" THEN SubSeq(base, 1, NetlocEnd(base)) \o u
    ELSE BaseDir(base) \o u

\* ----------------------------------- extract_images_basic (208-219)
Range(f) == {f[i] : i \in DOMAIN f}

RECURSIVE SelectAll(_, _)
\* soup.select(tag): the elements with that tag, in document order
SelectAll(sp, tag) ==
    IF sp = <<>> THEN <<>>
    ELSE (IF Head(sp).tag = tag THEN <<Head(sp)>> ELSE <<>>) \o SelectAll(Tail(sp), tag)

\* img.get("data-src") or img.get("src")
ImgSrc(img) == Or(img.data_src, img.src)

RECURSIVE ImagesLoop(_, _, _, _, _)
ImagesLoop(imgs, i, base_url, lim, urls) ==
    IF i > Len(imgs) THEN urls
    ELSE LET src == ImgSrc(imgs[i])
         IN IF ~Truthy(src) \/ src[1] = "data:"
            THEN ImagesLoop(imgs, i + 1, base_url, lim, urls)
            ELSE LET abs_url == urljoin(base_url, src)
                     urls2 == IF abs_url \notin Range(urls) THEN Append(urls, abs_url) ELSE urls
                 IN IF abs_url = Raised THEN Raised
                    ELSE IF Len(urls2) >= lim THEN urls2
                    ELSE ImagesLoop(imgs, i + 1, base_url, lim, urls2)

extract_images_basic(sp, base_url, lim) ==
    ImagesLoop(SelectAll(sp, "img"), 1, base_url, lim, <<>>)

\* ------------------------------------------------ the whole-page text
\* soup.get_text(sep, strip=True): the strings of the document, each stripped, the
\* empty ones dropped, joined by sep.  An element's text is one string; a dd holds one
\* string per li; img and script elements hold none.
ItemStrings(it) == IF it.li # <<>> THEN it.li ELSE <<it.text>>

RECURSIVE ItemsStrings(_)
ItemsStrings(items) ==
    IF items = <<>> THEN <<>> ELSE ItemStrings(Head(items)) \o ItemsStrings(Tail(items))

ElementStrings(el) ==
    IF el.tag = "dl" THEN ItemsStrings(el.items)
    ELSE IF el.tag \in {"img", "script"} THEN <<>>
    ELSE <<el.text>>

RECURSIVE AllStrings(_)
AllStrings(sp) ==
    IF sp = <<>> THEN <<>> ELSE ElementStrings(Head(sp)) \o AllStrings(Tail(sp))

RECURSIVE StripAll(_)
StripAll(ss) ==
    IF ss = <<>> THEN <<>>
    ELSE (IF Strip(Head(ss)) = <<>> THEN <<>> ELSE <<Strip(Head(ss))>>) \o StripAll(Tail(ss))

get_text(sp, sep) == Join(StripAll(AllStrings(sp)), sep)

\* ------------------------------------------- extract_postcode (35-52)
Candidates ==
    <<"[itemprop=address]", ".address", ".addr", ".p-address", ".detailAddress",
      "#address", ".l-property__address", ".c-detailAddress", ".p-detail__address">>

\* the characters that are not \w: whitespace and punctuation (letters, digits and
\* kanji are)
NonWord == {" ", NL, "-", "/", "|", "\\", ":", "[", "]", "Slash", "FullBar"}

IsWord(c) == c \notin NonWord

\* re.search(r"\b(\d{3}-\d{4})\b", t): where the leftmost match starts, 0 when none
PostalWordSearch(t) ==
    FirstOf({i \in 1..Len(t) :
                /\ PostalAt(t, i)
                /\ (i = 1 \/ ~IsWord(t[i - 1]))
                /\ (i + 7 = Len(t) \/ ~IsWord(t[i + 8]))})

RECURSIVE PostcodeLoop(_, _)
PostcodeLoop(sp, c) ==
    IF c > Len(Candidates)
    THEN LET page == get_text(sp, <<" ">>)
             m == PostalWordSearch(page)
         IN IF m # 0 THEN SubSeq(page, m, m + 7) ELSE None
    ELSE LET el == select_one(sp, Candidates[c])
             m == IF el # 0 THEN PostalWordSearch(sp[el].text) ELSE 0
         IN IF m # 0 THEN SubSeq(sp[el].text, m, m + 7) ELSE PostcodeLoop(sp, c + 1)

extract_postcode(sp) == PostcodeLoop(sp, 1)

\* ------------------------------- extract_address_text_simple (54-62)
MaxAfterPostal == 200

\* the telephone labels of r"(TEL|Fax|FAX|<Den><Wa>)"
TelLabels == {<<"T", "E", "L">>, <<"F", "a", "x">>, <<"F", "A", "X">>, <<"Den", "Wa">>}

LabelAt(t, k) == \E l \in TelLabels : k + Len(l) - 1 <= Len(t) /\ SubSeq(t, k, k + Len(l) - 1) = l

\* re.split(labels, line, maxsplit=1)[0]: the text before the leftmost label
BeforeFirstLabel(t) ==
    LET k == FirstOf({j \in 1..Len(t) : LabelAt(t, j)})
    IN IF k = 0 THEN t ELSE SubSeq(t, 1, k - 1)

\* re.search(r"\d{3}-\d{4}", t): where the leftmost match starts, 0 when none
PostalSearch(t) == FirstOf({i \in 1..Len(t) : PostalAt(t, i)})

\* the end of the greedy [^\n]{0,n} from position i on: at most n characters, none a
\* line break
SameLineEnd(t, i, n) ==
    LET stops == {k \in i..Len(t) : t[k] = NL \/ k = i + n}
    IN IF stops = {} THEN Len(t) ELSE MinOf(stops) - 1

\* a plausible slip: the match anchored at the start of the page text (re.match)
address_text_anchored(sp) ==
    LET page == get_text(sp, <<NL>>)
        line == SubSeq(page, 1, SameLineEnd(page, 9, MaxAfterPostal))
    IN IF ~PostalAt(page, 1) THEN None
       ELSE IF Strip(BeforeFirstLabel(line)) # <<>> THEN Strip(BeforeFirstLabel(line))
       ELSE None

extract_address_text_simple(sp) ==
    LET page == get_text(sp, <<NL>>)
        m == PostalSearch(page)
        line == SubSeq(page, m, SameLineEnd(page, m + 8, MaxAfterPostal))
    IN IF m = 0 THEN None
       ELSE IF Strip(BeforeFirstLabel(line)) # <<>> THEN Strip(BeforeFirstLabel(line))
       ELSE None

\* ----------------------------------------- extract_year_simple (105-109)
\* re.search(r"(\d{4})<Nen>", text)
RECURSIVE YearSearch(_, _)
YearSearch(t, i) ==
    IF i + 4 > Len(t) THEN None
    ELSE IF (\A k \in i..(i + 3) : IsDigit(t[k])) /\ t[i + 4] = "Nen" THEN SubSeq(t, i, i + 3)
    ELSE YearSearch(t, i + 1)

extract_year_simple(text) == IF ~Truthy(text) THEN None ELSE YearSearch(text, 1)

\* ---------------------------- normalize_building_type_simple (111-123)
\* the dictionary: a whole native name is one token
BuildingTypes ==
    [Manshon |-> <<"apartment">>, Apaato |-> <<"apartment">>,
     Ikkodate |-> <<"house">>, Kodate |-> <<"house">>,
     TerasuHausu |-> <<"townhouse">>, TaunHausu |-> <<"townhouse">>]

normalize_building_type_simple(jp) ==
    IF ~Truthy(jp) THEN None
    ELSE LET t == Strip(jp)
         IN IF Len(t) = 1 /\ t[1] \in DOMAIN BuildingTypes THEN BuildingTypes[t[1]] ELSE None

\* ------------------------------------ to_english_name_simple (134-143)
LatinLetters ==
    {"a", "b", "c", "d", "e", "f", "g", "h", "i", "j", "k", "l", "m",
     "n", "o", "p", "q", "r", "s", "t", "u", "v", "w", "x", "y", "z",
     "A", "B", "C", "D", "E", "F", "G", "H", "I", "J", "K", "L", "M",
     "N", "O", "P", "Q", "R", "S", "T", "U", "V", "W", "X", "Y", "Z"}

\* the words of _conv.do(t), capitalized and joined: pykakasi's transliteration, an
\* external conversion, stands as the text marked as romanized
Romanized(t) == <<"romaji:">> \o t

to_english_name_simple(text, kakasi) ==
    IF ~Truthy(text) THEN None
    ELSE LET t == Strip(text)
         IN IF \E i \in 1..Len(t) : t[i] \in LatinLetters THEN t
            ELSE IF kakasi THEN Romanized(t)
            ELSE t

\* ------------------ extract_map_coords_simple / _basic (164-183)
extract_map_coords_simple(sp) ==
    LET sc == select_one(sp, "application/ld+json")
    IN IF sc # 0 /\ sp[sc].string.kind = "dict" /\ sp[sc].string.geo = "dict"
          /\ Truthy(sp[sc].string.latitude) /\ Truthy(sp[sc].string.longitude)
       THEN <<sp[sc].string.latitude, sp[sc].string.longitude>>
       ELSE <<None, None>>

extract_map_coords_basic(sp) ==
    LET lat_el == select_one(sp, ".latitude")
        lng_el == select_one(sp, ".longitude")
    IN <<IF lat_el # 0 THEN sp[lat_el].text ELSE None,
         IF lng_el # 0 THEN sp[lng_el].text ELSE None>>

\* ---------------------------------- extract_stations_basic (185-206)
Kotsu == <<"Kotsu">>

\* r"(.+?)<slash>(.+?Eki)" matched from position p: the lazy groups; "." matches no
\* line break.  None when there is no match from p.
FirstAt(t, from, c) ==
    LET hits == {k \in from..Len(t) : t[k] = c /\ \A j \in from..(k - 1) : t[j] # NL}
    IN IF hits = {} THEN 0 ELSE MinOf(hits)

NoMatch == [ok |-> FALSE, line |-> None, station |-> None]

StationMatchAt(t, p, slash) ==
    LET q == IF p <= Len(t) /\ t[p] # NL THEN FirstAt(t, p + 1, slash) ELSE 0
        r == IF q # 0 /\ q + 1 <= Len(t) /\ t[q + 1] # NL /\ (\A j \in p..q : t[j] # NL)
             THEN FirstAt(t, q + 2, "Eki") ELSE 0
    IN IF q # 0 /\ r # 0 /\ (\A j \in p..r : t[j] # NL)
       THEN [ok |-> TRUE, line |-> Strip(SubSeq(t, p, q - 1)),
             station |-> Strip(SubSeq(t, q + 1, r))]
       ELSE NoMatch

RECURSIVE StationSearch(_, _, _)
StationSearch(t, p, slash) ==
    IF p > Len(t) THEN NoMatch
    ELSE IF StationMatchAt(t, p, slash).ok THEN StationMatchAt(t, p, slash)
    ELSE StationSearch(t, p + 1, slash)

\* r"<Kachi><Aruku>\s*(\d+)\s*<Fun>" (on foot, N minutes) from position i on
RECURSIVE WalkSearch(_, _)
WalkSearch(t, i) ==
    IF i + 1 > Len(t) THEN None
    ELSE LET j == SkipSpaces(t, i + 2)
             e == DigitRunEnd(t, j)
             k == SkipSpaces(t, e + 1)
         IN IF t[i] = "Kachi" /\ t[i + 1] = "Aruku" /\ e >= j /\ k <= Len(t) /\ t[k] = "Fun"
            THEN SubSeq(t, j, e)
            ELSE WalkSearch(t, i + 1)

Station(ln, st, walk) == [line |-> ln, station |-> st, walk |-> walk]

ParseLi(t) ==
    LET m1 == StationSearch(t, 1, "Slash")
        m == IF m1.ok THEN m1 ELSE StationSearch(t, 1, "/")
    IN Station(IF m.ok THEN m.line ELSE None,
               IF m.ok THEN m.station ELSE None,
               WalkSearch(t, 1))

\* the dt elements of the document, each with the dd siblings that follow it
RECURSIVE DtsOfItems(_)
DtsOfItems(items) ==
    IF items = <<>> THEN <<>>
    ELSE (IF Head(items).name = "dt"
          THEN <<[text |-> Head(items).text, after |-> Tail(items)]>> ELSE <<>>)
         \o DtsOfItems(Tail(items))

RECURSIVE SelectDts(_)
SelectDts(sp) ==
    IF sp = <<>> THEN <<>>
    ELSE (IF Head(sp).tag = "dl" THEN DtsOfItems(Head(sp).items) ELSE <<>>)
         \o SelectDts(Tail(sp))

\* dt.find_next_sibling("dd"): the li texts of the next dd sibling, None without one
RECURSIVE NextDd(_)
NextDd(after) ==
    IF after = <<>> THEN None
    ELSE IF Head(after).name = "dd" THEN Head(after).li
    ELSE NextDd(Tail(after))

RECURSIVE StationsOfLis(_, _, _, _)
StationsOfLis(lis, i, lim, result) ==
    IF i > Len(lis) THEN result
    ELSE LET r2 == Append(result, ParseLi(lis[i]))
         IN IF Len(r2) >= lim THEN r2 ELSE StationsOfLis(lis, i + 1, lim, r2)

RECURSIVE StationsLoop(_, _, _)
StationsLoop(dts, i, lim) ==
    IF i > Len(dts) THEN <<>>
    ELSE IF dts[i].text = Kotsu
         THEN (IF NextDd(dts[i].after) = None THEN <<>>
               ELSE StationsOfLis(NextDd(dts[i].after), 1, lim, <<>>))
    ELSE StationsLoop(dts, i + 1, lim)

extract_stations_basic(sp, lim) == StationsLoop(SelectDts(sp), 1, lim)

\* ------------------------------------------- parse_property (224-297)
Shozaichi == <<"Shozaichi">>

Shubetsu == <<"Shubetsu">>

Chikunengetsu == <<"Chikunengetsu">>

StationLimit == 5

ImageLimit == 8

MaxStations == 5

MaxImages == 16

\* lat, lng after lines 240-241: the class-selector result replaces the other
map_coords_first_wins(sp) ==
    IF extract_map_coords_simple(sp) # <<None, None>> THEN extract_map_coords_simple(sp)
    ELSE extract_map_coords_basic(sp)

map_coords(sp) ==
    LET simple == extract_map_coords_simple(sp)
        basic == extract_map_coords_basic(sp)
    IN basic

\* a plausible slip: the bound of the padding test off by one
station_slot_off_by_one(stations, i) ==
    IF i < Len(stations) THEN stations[i] ELSE Station(None, None, None)

\* stations[i - 1] if i - 1 < len(stations) else {}, read with .get(): all None for {}
station_slot(stations, i) ==
    IF i - 1 < Len(stations) THEN stations[i] ELSE Station(None, None, None)

Key(name, i) == name \o ToString(i)

\* one pass of the loop of lines 283-290: the six keys of index i
StationGroup(stations, i) ==
    LET src == station_slot(stations, i)
    IN (Key("station_name_", i) :> src.station)
           @@ (Key("train_line_name_", i) :> src.line)
           @@ (Key("walk_", i) :> src.walk)
           @@ (Key("bus_", i) :> None)
           @@ (Key("car_", i) :> None)
           @@ (Key("cycle_", i) :> None)

RECURSIVE StationFields(_, _, _)
StationFields(data, stations, i) ==
    IF i > MaxStations THEN data
    ELSE StationFields(StationGroup(stations, i) @@ data, stations, i + 1)

\* one pass of the loop of lines 292-295: the two keys of index i
ImageGroup(imgs, i) ==
    (Key("image_url_", i) :> (IF i - 1 < Len(imgs) THEN imgs[i] ELSE None))
        @@ (Key("image_category_", i) :> None)

RECURSIVE ImageFields(_, _, _)
ImageFields(data, imgs, i) ==
    IF i > MaxImages THEN data
    ELSE ImageFields(ImageGroup(imgs, i) @@ data, imgs, i + 1)

\* the call ends in the ValueError of extract_images_basic, which nothing catches
parse_property_raises(u, sp) == extract_images_basic(sp, u, ImageLimit) = Raised

\* the record returned (when the call does not raise)
parse_property(u, sp, kakasi) ==
    LET info == get_side_info_map_simple(sp)
        addr_text == Or(DictGet(info, Shozaichi), extract_address_text_simple(sp))
        addr_parts == IF Truthy(addr_text) THEN split_japanese_address_simple(addr_text)
                      ELSE NoAddrParts
        name_jp == extract_building_name_jp_simple(sp)
        coords == map_coords(sp)
        stations == extract_stations_basic(sp, StationLimit)
        imgs == extract_images_basic(sp, u, ImageLimit)
        data == [link |-> u,
                 property_csv_id |-> extract_property_csv_id(u),
                 postcode |-> extract_postcode(sp),
                 prefecture |-> addr_parts.prefecture,
                 city |-> addr_parts.city,
                 district |-> addr_parts.district,
                 chome_banchi |-> addr_parts.chome_banchi,
                 building_type |-> normalize_building_type_simple(DictGet(info, Shubetsu)),
                 year |-> extract_year_simple(DictGet(info, Chikunengetsu)),
                 building_name_en |-> to_english_name_simple(name_jp, kakasi),
                 building_name_ja |-> name_jp,
                 building_name_zh_CN |-> None,
                 building_name_zh_TW |-> None,
                 building_description_en |-> None,
                 building_description_ja |-> None,
                 building_description_zh_CN |-> None,
                 building_description_zh_TW |-> None,
                 map_lat |-> coords[1],
                 map_lng |-> coords[2],
                 numeric_guarantor_max |-> None,
                 discount |-> None,
                 create_date |-> None]
    IN ImageFields(StationFields(data, stations, 1), imgs, 1)

\* ------------------------------------------------ the URLs of the model
UrlPieces == {RentPrefix, <<"/">>, <<"1">>, <<"2">>, <<"x">>}

RECURSIVE PieceSeqs(_)
PieceSeqs(n) ==
    IF n = 0 THEN {<<>>}
    ELSE LET shorter == PieceSeqs(n - 1)
         IN shorter \cup {Append(s, p) : s \in {t \in shorter : Len(t) = n - 1}, p \in UrlPieces}

Urls == {Flatten(s) : s \in PieceSeqs(MaxPieces)}

\* ----------------------------------------- specification: the identifier
InitId ==
    /\ pc = "start"
    /\ html = NotFetched
    /\ conv = FALSE
    /\ url \in Urls
    /\ soup = EmptySoup
    /\ addr = <<>>
    /\ limit = 0
    /\ ret = None
    /\ stdout = <<>>
    /\ files = <<>>
    /\ status = Running

CallCsvId ==
    /\ pc = "start"
    /\ ret' = extract_property_csv_id(url)
    /\ pc' = "done"
    /\ UNCHANGED <<url, html, soup, addr, limit, conv, stdout, files, status>>

NextId == CallCsvId

SpecId == InitId /\ [][NextId]_vars

\* ------------------------------------------- the addresses of the model
AddrChars == {"To", "Shi", "x", " ", NL}

PostalCode == <<"1", "5", "0", "-", "0", "0", "0", "1">>

AddrPrefixes == {<<>>, PostalCode, <<" ">> \o PostalCode}

Addrs == {p \o b : p \in AddrPrefixes, b \in SeqsUpTo(AddrChars, MaxAddrLen)}

\* ------------------------------- specification: the address segmenter
InitAddr ==
    /\ pc = "start"
    /\ html = NotFetched
    /\ conv = FALSE
    /\ url = <<>>
    /\ soup = EmptySoup
    /\ addr \in Addrs
    /\ limit = 0
    /\ ret = None
    /\ stdout = <<>>
    /\ files = <<>>
    /\ status = Running

CallSplitAddress ==
    /\ pc = "start"
    /\ ret' = split_japanese_address_simple(addr)
    /\ pc' = "done"
    /\ UNCHANGED <<url, html, soup, addr, limit, conv, stdout, files, status>>

NextAddr == CallSplitAddress

SpecAddr == InitAddr /\ [][NextAddr]_vars

\* ------------------------------------------------------------ claim C5
\* the address with its leading postal code (and the whitespace around it) removed
WithoutPostal(a) ==
    IF \E i \in 1..Len(a) : PostalAt(a, i) /\ \A k \in 1..(i - 1) : IsSpace(a[k])
    THEN LET i == CHOOSE x \in 1..Len(a) : PostalAt(a, x) /\ \A k \in 1..(x - 1) : IsSpace(a[k])
             after == {j \in (i + 8)..(Len(a) + 1) : \A k \in (i + 8)..(j - 1) : IsSpace(a[k])}
             j == CHOOSE x \in after : \A y \in after : y <= x
         IN SubSeq(a, j, Len(a))
    ELSE a

\* the positions from `from` on at which a suffix character ends a one-line prefix
SuffixEnds(s, suffixes, from) ==
    {j \in from..Len(s) : s[j] \in suffixes /\ \A k \in 1..(j - 1) : s[k] # NL}

\* prefix / remainder when the first suffix position counted from `from` is taken
Piece(s, suffixes, from) ==
    IF SuffixEnds(s, suffixes, from) = {} THEN None
    ELSE SubSeq(s, 1, MinOf(SuffixEnds(s, suffixes, from)))

Remainder(s, suffixes, from) ==
    IF SuffixEnds(s, suffixes, from) = {} THEN s
    ELSE Strip(SubSeq(s, MinOf(SuffixEnds(s, suffixes, from)) + 1, Len(s)))

SplitAs(a0, from) ==
    LET a == WithoutPostal(a0)
        r1 == Remainder(a, PrefSuffix, from)
        r2 == Remainder(r1, CitySuffix, from)
    IN [prefecture |-> Piece(a, PrefSuffix, from),
        city |-> Piece(r1, CitySuffix, from),
        district |-> None,
        chome_banchi |-> IF r2 = <<>> THEN None ELSE r2]

\* C5 as stated: the prefix up to and including the FIRST occurrence of a suffix
\* character, wherever it is (position 1 included).
C5_Original == pc = "done" => ret = SplitAs(addr, 1)

\* C5 amended: the suffix character that ends prefecture (city) is the first one that
\* is not the first character of the text matched: the prefix has at least one
\* character before its suffix character.
C5_Split == pc = "done" => ret = SplitAs(addr, 2)

\* a city that starts with a municipal-suffix character (Machi-x-Shi after the prefecture)
C5_Witness ==
    /\ pc = "done"
    /\ ret.prefecture = <<"x", "To">>
    /\ ret.city = <<"Shi", "x", "Shi">>
    /\ ret.chome_banchi = None

\* ------------------------------------ specification: the side-info map
LabelA == <<"Shubetsu">>

LabelB == <<"Chikunengetsu">>

SideItems ==
    {Dt(<<>>), Dt(LabelA), Dt(LabelB), Dd(<<>>), Dd(<<"v">>), Dd(<<"w">>)}

SideSoups ==
    {EmptySoup}
        \cup {<<Dl(c, items)>> : c \in {"dl.rent_view_side_info", ""},
                                 items \in SeqsUpTo(SideItems, MaxItems)}

InitSide ==
    /\ pc = "start"
    /\ html = NotFetched
    /\ conv = FALSE
    /\ url = <<>>
    /\ soup \in SideSoups
    /\ addr = <<>>
    /\ limit = 0
    /\ ret = None
    /\ stdout = <<>>
    /\ files = <<>>
    /\ status = Running

CallSideInfo ==
    /\ pc = "start"
    /\ ret' = get_side_info_map_simple(soup)
    /\ pc' = "done"
    /\ UNCHANGED <<url, html, soup, addr, limit, conv, stdout, files, status>>

NextSide == CallSideInfo

SpecSide == InitSide /\ [][NextSide]_vars

\* ------------------------------------------------------------ claim C9
MaxOf(S) == CHOOSE x \in S : \A y \in S : y <= x

\* the dt/dd elements of the side-info container (none when it is absent)
SideItemsOf(sp) ==
    IF \E i \in 1..Len(sp) : sp[i].sel = "dl.rent_view_side_info"
    THEN sp[MinOf({i \in 1..Len(sp) : sp[i].sel = "dl.rent_view_side_info"})].items
    ELSE <<>>

\* the value elements that have an unconsumed label before them: the element just
\* before is a label (any element in between would be a newer label or a consumer)
Paired(items, emptyLabels) ==
    {j \in 2..Len(items) :
        /\ items[j].name = "dd" /\ items[j - 1].name = "dt"
        /\ (emptyLabels \/ items[j - 1].text # <<>>)}

PairsMap(items, emptyLabels) ==
    LET P == Paired(items, emptyLabels)
    IN [k \in {items[j - 1].text : j \in P} |->
            items[MaxOf({j \in P : items[j - 1].text = k})].text]

\* C9 as stated: every value element is paired with the most recent unconsumed label
\* element, whatever that label's text.
C9_Original == pc = "done" => ret = PairsMap(SideItemsOf(soup), TRUE)

\* C9 amended: a value element is paired with the most recent unconsumed label
\* element only if that label's text is not empty; a value after a label with empty
\* text, or with no unconsumed label before it, adds nothing; the mapping is empty
\* when the container is absent.
C9_SideInfo == pc = "done" => ret = PairsMap(SideItemsOf(soup), FALSE)

\* a label consumed by one value and followed by a second value, which adds nothing
C9_Witness ==
    /\ pc = "done"
    /\ \E j \in 1..Len(SideItemsOf(soup)) :
           j >= 3 /\ SideItemsOf(soup)[j].name = "dd" /\ SideItemsOf(soup)[j - 1].name = "dd"
              /\ SideItemsOf(soup)[j - 2] = Dt(LabelA) /\ SideItemsOf(soup)[j].text # <<>>
              /\ SideItemsOf(soup)[j - 1].text # SideItemsOf(soup)[j].text
    /\ DOMAIN ret = {LabelA}

\* ------------------------------------------ specification: the images
\* http://h/rent/1/2
PageUrl == <<"http:", "//", "h">> \o RentPrefix \o <<"1", "/", "2">>

RelA == <<"a">>

RelB == <<"b">>

\* the absolute form of RelA under PageUrl
AbsA == <<"http:", "//", "h">> \o RentPrefix \o <<"1", "/", "a">>

RootedA == <<"/", "a">>

DataUri == <<"data:", "x">>

\* "http://[": an authority that opens a bracket and never closes it
BadSrc == <<"http:", "//", "[">>

ImgVocab ==
    {Img(None, RelA), Img(None, AbsA), Img(None, RelB), Img(None, RootedA),
     Img(RelB, RelA), Img(<<>>, RelA), Img(DataUri, RelA), Img(None, DataUri),
     Img(None, None), Img(None, BadSrc)}

InitImg ==
    /\ pc = "start"
    /\ html = NotFetched
    /\ conv = FALSE
    /\ url = PageUrl
    /\ soup \in SeqsUpTo(ImgVocab, MaxImgs)
    /\ addr = <<>>
    /\ limit \in 1..MaxLimit
    /\ ret = None
    /\ stdout = <<>>
    /\ files = <<>>
    /\ status = Running

\* the call returns its list, or ends in the ValueError that urljoin raised
CallImages ==
    /\ pc = "start"
    /\ LET r == extract_images_basic(soup, url, limit)
       IN /\ ret' = r
          /\ pc' = IF r = Raised THEN "raised" ELSE "done"
    /\ UNCHANGED <<url, html, soup, addr, limit, conv, stdout, files, status>>

NextImg == CallImages

SpecImg == InitImg /\ [][NextImg]_vars

\* ------------------------------------------------------------ claim C3
\* the source of an element (data-src before src), None when it has none
SourceOf(img) ==
    IF img.data_src # None /\ img.data_src # <<>> THEN img.data_src
    ELSE IF img.src # None /\ img.src # <<>> THEN img.src
    ELSE None

\* the resolved absolute URLs of the elements that have a source other than a data:
\* URI, in document order (a source that cannot be resolved has none)
RECURSIVE ResolvedOf(_, _)
ResolvedOf(sp, base) ==
    IF sp = <<>> THEN <<>>
    ELSE LET s == SourceOf(Head(sp))
         IN (IF s = None \/ s[1] = "data:" \/ urljoin(base, s) = Raised
             THEN <<>> ELSE <<urljoin(base, s)>>) \o ResolvedOf(Tail(sp), base)

\* r lists, in first-seen order and without repeats, the first n distinct values of xs
FirstDistinct(r, xs, n) ==
    LET firsts == {i \in 1..Len(xs) : \A j \in 1..(i - 1) : xs[j] # xs[i]}
    IN /\ Len(r) = (IF Cardinality(firsts) < n THEN Cardinality(firsts) ELSE n)
       /\ \A k \in 1..Len(r) :
             \E i \in firsts : r[k] = xs[i] /\ Cardinality({j \in firsts : j < i}) = k - 1

\* C3: for any image elements and any limit >= 1, extract_images_basic returns the
\* first min(limit, d) distinct resolved URLs in first-seen document order.
C3_Original ==
    pc # "start" => pc = "done" /\ FirstDistinct(ret, ResolvedOf(soup, url), limit)

\* -------------------------------------- specification: parse_property
NoDigitUrl == <<"http:", "//", "h", "/", "p">>

GeoJson == Json("dict", "dict", <<"3", "5">>, <<"1", "3", "9">>)

\* "L<Slash>S<Eki> <Kachi><Aruku>5<Fun>": line L, station S-eki, 5 minutes on foot
LiStation == <<"L", "Slash", "S", "Eki", " ", "Kachi", "Aruku", "5", "Fun">>

\* "L/S<Eki>"
LiShort == <<"L", "/", "S", "Eki">>

\* "/S<Eki>": a separator with nothing before it
LiNoLine == <<"/", "S", "Eki">>

\* a list item without line / station separator
LiBus == <<"b", "u", "s">>

\* "150-0001 <Kan><To><Kan><Ku>1 TEL 03"
AddrLine ==
    PostalCode \o <<" ", "Kan", "To", "Kan", "Ku", "1", " ", "T", "E", "L", " ", "0", "3">>

ParseVocab ==
    {Script(GeoJson),
     Script(Json("invalid", "absent", None, None)),
     Element("span", ".latitude", <<"3", "6">>),
     Element("span", ".longitude", <<>>),
     Dl("dl.rent_view_side_info", <<Dt(Kotsu), DdList(<<LiStation, LiBus>>)>>),
     Dl("", <<Dt(Kotsu), DdList(<<LiBus, LiShort, LiShort, LiShort, LiShort, LiShort>>)>>),
     Dl("", <<Dt(Kotsu)>>),
     Dl("", <<Dt(Kotsu), DdList(<<LiNoLine, LiShort>>)>>),
     Dl("dl.rent_view_side_info",
        <<Dt(Shozaichi), Dd(<<"Kan", "Ken", "Kan", "Shi", "2">>),
          Dt(Shubetsu), Dd(<<"Manshon">>),
          Dt(Chikunengetsu), Dd(<<"2", "0", "0", "1", "Nen">>),
          Dt(BukkenMei), Dd(<<"Kan">>)>>),
     Element("p", ".address", AddrLine),
     Element("h1", "", <<"n">>),
     Img(None, RelA),
     Img(None, BadSrc)}

InitParse ==
    /\ pc = "start"
    /\ html = NotFetched
    /\ conv \in BOOLEAN
    /\ url \in {PageUrl, NoDigitUrl}
    /\ soup \in SeqsUpTo(ParseVocab, MaxBlocks)
    /\ addr = <<>>
    /\ limit = 0
    /\ ret = None
    /\ stdout = <<>>
    /\ files = <<>>
    /\ status = Running

\* parse_property(url, html) returns its record, or ends in the ValueError
CallParseProperty ==
    /\ pc = "start"
    /\ IF parse_property_raises(url, soup)
       THEN ret' = Raised /\ pc' = "raised"
       ELSE ret' = parse_property(url, soup, conv) /\ pc' = "done"
    /\ UNCHANGED <<url, html, soup, addr, limit, conv, stdout, files, status>>

NextParse == CallParseProperty

SpecParse == InitParse /\ [][NextParse]_vars

\* ------------------------------------------------------------ claim C1
SchemaKeys ==
    {"link", "property_csv_id", "postcode", "prefecture",
     "city", "district", "chome_banchi", "building_type",
     "year", "building_name_en", "building_name_ja", "building_name_zh_CN",
     "building_name_zh_TW", "building_description_en", "building_description_ja", "building_description_zh_CN",
     "building_description_zh_TW", "map_lat", "map_lng", "numeric_guarantor_max",
     "discount", "create_date",
     "station_name_1", "train_line_name_1", "walk_1", "bus_1",
     "car_1", "cycle_1", "station_name_2", "train_line_name_2",
     "walk_2", "bus_2", "car_2", "cycle_2",
     "station_name_3", "train_line_name_3", "walk_3", "bus_3",
     "car_3", "cycle_3", "station_name_4", "train_line_name_4",
     "walk_4", "bus_4", "car_4", "cycle_4",
     "station_name_5", "train_line_name_5", "walk_5", "bus_5",
     "car_5", "cycle_5",
     "image_url_1", "image_category_1", "image_url_2", "image_category_2",
     "image_url_3", "image_category_3", "image_url_4", "image_category_4",
     "image_url_5", "image_category_5", "image_url_6", "image_category_6",
     "image_url_7", "image_category_7", "image_url_8", "image_category_8",
     "image_url_9", "image_category_9", "image_url_10", "image_category_10",
     "image_url_11", "image_category_11", "image_url_12", "image_category_12",
     "image_url_13", "image_category_13", "image_url_14", "image_category_14",
     "image_url_15", "image_category_15", "image_url_16", "image_category_16"}

\* C1: for every markup and every URL, parse_property returns, without raising, a
\* record whose key set is exactly the fixed schema.
C1_Original == pc # "start" => pc = "done" /\ DOMAIN ret = SchemaKeys

\* ------------------------------------------------------------ claim C2
\* the list items station extraction looks at: those of the first dd that follows, in
\* its dl, the first dt of the document whose text is the transport label
TransportDts(sp) ==
    {<<b, j>> \in (1..Len(sp)) \X (1..8) :
        sp[b].tag = "dl" /\ j <= Len(sp[b].items)
           /\ sp[b].items[j].name = "dt" /\ sp[b].items[j].text = Kotsu}

FirstTransportDt(sp) ==
    CHOOSE x \in TransportDts(sp) :
        \A y \in TransportDts(sp) : x[1] < y[1] \/ (x[1] = y[1] /\ x[2] <= y[2])

TransportLis(sp) ==
    IF TransportDts(sp) = {} THEN <<>>
    ELSE LET b == FirstTransportDt(sp)[1]
             j == FirstTransportDt(sp)[2]
             dds == {k \in (j + 1)..Len(sp[b].items) : sp[b].items[k].name = "dd"}
         IN IF dds = {} THEN <<>> ELSE sp[b].items[MinOf(dds)].li

\* the number of stations discovered: one per list item, at most five
Discovered(sp) == IF Len(TransportLis(sp)) < 5 THEN Len(TransportLis(sp)) ELSE 5

\* a line / station separator with a station name that ends in Eki after it
HasStation(t) ==
    \E p, q, r \in 1..Len(t) :
        /\ p < q /\ q + 1 < r
        /\ t[q] \in {"Slash", "/"} /\ t[r] = "Eki"
        /\ \A j \in p..r : t[j] # NL

\* C2 as stated: station_name_1..k are non-null, station_name_(k+1)..5 null.
C2_Original ==
    pc = "done" =>
        \A i \in 1..5 :
            /\ Key("station_name_", i) \in DOMAIN ret
            /\ (i <= Discovered(soup)) <=> (ret[Key("station_name_", i)] # None)

\* C2 amended: station_name_i, i <= k, holds the station of the i-th item, which is
\* null when the item's text has no separator followed by a station name;
\* station_name_(k+1)..5 are present and null.
C2_Stations ==
    pc = "done" =>
        \A i \in 1..5 :
            /\ Key("station_name_", i) \in DOMAIN ret
            /\ (ret[Key("station_name_", i)] # None)
                  <=> (i <= Discovered(soup) /\ HasStation(TransportLis(soup)[i]))

\* two items discovered, the first with a station and the second without
C2_Witness ==
    /\ pc = "done"
    /\ Discovered(soup) = 2
    /\ ret.station_name_1 = <<"S", "Eki">>
    /\ ret.station_name_2 = None
    /\ ret.station_name_3 = None

\* ------------------------------------------------------------ claim C4
\* the text of the first element of a class, None when there is none
ClassText(sp, c) ==
    IF \E i \in 1..Len(sp) : sp[i].sel = c
    THEN sp[MinOf({i \in 1..Len(sp) : sp[i].sel = c})].text
    ELSE None

WellFormedGeo(sp) ==
    \E i \in 1..Len(sp) :
        /\ sp[i].tag = "script" /\ sp[i].string.kind = "dict" /\ sp[i].string.geo = "dict"
        /\ sp[i].string.latitude # None /\ sp[i].string.longitude # None

\* C4: map_lat and map_lng of the record are the class-selector result, whatever the
\* structured data holds.
C4_Coords ==
    pc = "done" =>
        /\ ret.map_lat = ClassText(soup, ".latitude")
        /\ ret.map_lng = ClassText(soup, ".longitude")

\* well-formed geo structured data, no .latitude / .longitude element: null coordinates
C4_Witness ==
    /\ pc = "done"
    /\ WellFormedGeo(soup)
    /\ \A i \in 1..Len(soup) : soup[i].sel \notin {".latitude", ".longitude"}
    /\ ret.map_lat = None /\ ret.map_lng = None

\* ------------------------------------------------------------ claim C7
HasDigit(u) == \E i \in 1..Len(u) : IsDigit(u[i])

AllDigits(u, a, b) == a <= b /\ \A k \in a..b : IsDigit(u[k])

\* [a, b] is a maximal run of digits of u
MaximalRun(u, a, b) ==
    /\ 1 <= a /\ b <= Len(u) /\ AllDigits(u, a, b)
    /\ (a = 1 \/ ~IsDigit(u[a - 1]))
    /\ (b = Len(u) \/ ~IsDigit(u[b + 1]))

\* /rent/<digits>/<digits> occurs at i, the digit groups being [i+6, j] and [j+2, k]
RentAt(u, i, j, k) ==
    /\ i + 5 <= Len(u) /\ SubSeq(u, i, i + 5) = RentPrefix
    /\ AllDigits(u, i + 6, j) /\ j + 1 <= Len(u) /\ u[j + 1] = "/"
    /\ AllDigits(u, j + 2, k) /\ k <= Len(u)
    /\ (k = Len(u) \/ ~IsDigit(u[k + 1]))

ContainsRent(u) == \E i, j, k \in 1..Len(u) : RentAt(u, i, j, k)

\* the starts of the maximal digit runs of u, and the k-th smallest of them
RunStarts(u) == {a \in 1..Len(u) : \E b \in a..Len(u) : MaximalRun(u, a, b)}

RunFrom(u, a) == SubSeq(u, a, CHOOSE b \in a..Len(u) : MaximalRun(u, a, b))

RECURSIVE RunsInOrder(_, _)
RunsInOrder(u, starts) ==
    IF starts = {} THEN <<>>
    ELSE LET a == CHOOSE x \in starts : \A y \in starts : x <= y
         IN <<RunFrom(u, a)>> \o RunsInOrder(u, starts \ {a})

\* C7: extract_property_csv_id returns the two numeric segments of the (leftmost)
\* /rent/<digits>/<digits> joined by "_" when the URL contains one; otherwise every
\* maximal digit run of the URL, in order, joined by "_"; None iff the URL has no digit.
C7_CsvId ==
    pc = "done" =>
        /\ ContainsRent(url) =>
              \E i, j, k \in 1..Len(url) :
                  /\ RentAt(url, i, j, k)
                  /\ \A i2, j2, k2 \in 1..Len(url) : RentAt(url, i2, j2, k2) => i <= i2
                  /\ ret = SubSeq(url, i + 6, j) \o <<"_">> \o SubSeq(url, j + 2, k)
        /\ (~ContainsRent(url) /\ HasDigit(url)) =>
              ret = Join(RunsInOrder(url, RunStarts(url)), <<"_">>)
        /\ (ret = None) <=> ~HasDigit(url)

\* a URL with a digit run before its /rent/<digits>/<digits>: the two rules differ
C7_Witness ==
    /\ pc = "done"
    /\ ContainsRent(url)
    /\ Cardinality(RunStarts(url)) = 3
    /\ ret # None

\* -------------------------------------- specification: the building name
NameVocab ==
    {Element("h1", "", <<>>),
     Element("h1", "", <<"a">>),
     Element("h2", "", <<"b">>),
     Element("h2", "", <<>>),
     Element("div", ".rent_view_ttl", <<"c">>),
     Element("title", "", <<"t", "|", "s">>),
     Element("title", "", <<"FullBar", "s">>),
     Dl("dl.rent_view_side_info", <<Dt(BukkenMei), Dd(<<"n", " ">>)>>),
     Dl("dl.rent_view_side_info",
        <<Dt(BukkenMei), Dd(<<>>), Dt(ManshonMei), Dd(<<"m">>), Dt(TatemonoMei), Dd(<<"k">>)>>)}

InitName ==
    /\ pc = "start"
    /\ html = NotFetched
    /\ conv = FALSE
    /\ url = <<>>
    /\ soup \in SeqsUpTo(NameVocab, MaxNameEls)
    /\ addr = <<>>
    /\ limit = 0
    /\ ret = None
    /\ stdout = <<>>
    /\ files = <<>>
    /\ status = Running

CallBuildingName ==
    /\ pc = "start"
    /\ ret' = extract_building_name_jp_simple(soup)
    /\ pc' = "done"
    /\ UNCHANGED <<url, html, soup, addr, limit, conv, stdout, files, status>>

NextName == CallBuildingName

SpecName == InitName /\ [][NextName]_vars

\* ----------------------------------------------------------- claim C10
NameLabels == {BukkenMei, TatemonoMei, ManshonMei}

\* a name label of the side-info container has a non-empty value
HasInfoName(sp) ==
    \E k \in NameLabels :
        k \in DOMAIN get_side_info_map_simple(sp) /\ get_side_info_map_simple(sp)[k] # <<>>

\* the text of the first element of a tag, None when there is none
TagText(sp, tag) ==
    IF \E i \in 1..Len(sp) : sp[i].tag = tag
    THEN sp[MinOf({i \in 1..Len(sp) : sp[i].tag = tag})].text
    ELSE None

\* the texts of the h1, h2 and title-class elements, in priority order (None: absent)
HeaderChain(sp) == <<TagText(sp, "h1"), TagText(sp, "h2"), ClassText(sp, ".rent_view_ttl")>>

NonEmptyHeaders(sp) == {i \in 1..3 : HeaderChain(sp)[i] # None /\ HeaderChain(sp)[i] # <<>>}

\* the document title up to its first bar, stripped (None: no title, or nothing left)
TitleName(sp) ==
    LET t == TagText(sp, "title")
        bars == {i \in 1..Len(t) : t[i] \in BarChars}
        cut == IF bars = {} THEN t ELSE SubSeq(t, 1, MinOf(bars) - 1)
    IN IF t = None \/ Strip(cut) = <<>> THEN None ELSE Strip(cut)

\* C10: with no named side-info label, extract_building_name_jp_simple returns the
\* first non-empty text among h1, h2 and .rent_view_ttl; the title only when none of
\* them has non-empty text; null only when all fail.
C10_Original ==
    (pc = "done" /\ ~HasInfoName(soup)) =>
        ret = IF NonEmptyHeaders(soup) # {} THEN HeaderChain(soup)[MinOf(NonEmptyHeaders(soup))]
              ELSE TitleName(soup)

\* ---------------------------------------- specification: the address text
\* "T E L 150-0001": the postal pattern after a telephone label, and not at line start
TelThenPostal == <<"T", "E", "L", " ">> \o PostalCode

\* "150-0001 y" + line break + "z"
PostalTwoLines == PostalCode \o <<" ", "y", NL, "z">>

AddrTextVocab ==
    {Element("p", ".address", <<"x">>),
     Element("p", ".address", AddrLine),
     Element("div", "#address", <<"w">>),
     Element("div", "", <<"z">>),
     Element("div", "", PostalCode \o <<" ", "y">>),
     Element("div", "", PostalTwoLines),
     Element("div", "", TelThenPostal),
     Element("div", "", PostalCode \o <<"F", "A", "X">>),
     Dl("", <<Dt(Shozaichi), Dd(PostalCode \o <<"Den", "Wa", "1">>)>>)}

InitAddrText ==
    /\ pc = "start"
    /\ html = NotFetched
    /\ conv = FALSE
    /\ url = <<>>
    /\ soup \in SeqsUpTo(AddrTextVocab, MaxBlocks)
    /\ addr = <<>>
    /\ limit = 0
    /\ ret = None
    /\ stdout = <<>>
    /\ files = <<>>
    /\ status = Running

CallAddressText ==
    /\ pc = "start"
    /\ ret' = extract_address_text_simple(soup)
    /\ pc' = "done"
    /\ UNCHANGED <<url, html, soup, addr, limit, conv, stdout, files, status>>

NextAddrText == CallAddressText

SpecAddrText == InitAddrText /\ [][NextAddrText]_vars

\* ------------------------------------------------------------ claim C6
\* the candidates whose first element exists and has non-empty text
WithText(sp) ==
    {c \in 1..Len(Candidates) : ClassText(sp, Candidates[c]) \notin {None, <<>>}}

\* t cut before its first telephone label, stripped; None when nothing is left
CutAtLabel(t) ==
    LET labels == {k \in 1..Len(t) : LabelAt(t, k)}
        cut == IF labels = {} THEN t ELSE SubSeq(t, 1, MinOf(labels) - 1)
    IN IF Strip(cut) = <<>> THEN None ELSE Strip(cut)

\* v is what the scan of the page text gives: the first postal pattern of the text
\* with what follows it on its line (at most MaxAfterPostal characters), cut at the
\* first telephone label; None when the text has no postal pattern
IsScanResult(v, page) ==
    IF \A i \in 1..Len(page) : ~PostalAt(page, i) THEN v = None
    ELSE \E i \in 1..Len(page), e \in 1..Len(page) :
            /\ PostalAt(page, i) /\ \A j \in 1..(i - 1) : ~PostalAt(page, j)
            /\ e >= i + 7 /\ \A k \in (i + 8)..e : page[k] # NL
            /\ (e = Len(page) \/ page[e + 1] = NL \/ e = i + 7 + MaxAfterPostal)
            /\ e <= i + 7 + MaxAfterPostal
            /\ v = CutAtLabel(SubSeq(page, i, e))

\* C6 as stated: the text of the first address-like selector that has text; the scan
\* of the page only when none has.
C6_Original ==
    pc = "done" =>
        IF WithText(soup) # {} THEN ret = ClassText(soup, Candidates[MinOf(WithText(soup))])
        ELSE IsScanResult(ret, get_text(soup, <<NL>>))

\* C6 amended: no selector is consulted; the result is always the scan of the
\* line-delimited page text for its first postal pattern (not only at a line start),
\* cut at the first telephone label, null when the page has no postal pattern.
C6_AddressText == pc = "done" => IsScanResult(ret, get_text(soup, <<NL>>))

\* an address-like selector has text, and the result comes from a later element
C6_Witness ==
    /\ pc = "done"
    /\ Len(soup) = 2
    /\ soup[1] = Element("p", ".address", <<"x">>)
    /\ soup[2].text = TelThenPostal
    /\ ret = PostalCode

\* ------------------------------------------------ specification: the CLI
Pages == SeqsUpTo(ParseVocab, MaxBlocks)

\* what main prints: the kind of line and, for the record, the data dumped
Line(kind, value) == [line |-> kind, value |-> value]

\* what main writes: the name of the file and its content
File(name, content) == [name |-> name, content |-> content]

\* url is None when the command line has no argument (len(sys.argv) < 2)
Init ==
    /\ pc = "start"
    /\ html = NotFetched
    /\ conv \in BOOLEAN
    /\ url \in {None, PageUrl, NoDigitUrl}
    /\ soup = EmptySoup
    /\ addr = <<>>
    /\ limit = 0
    /\ ret = None
    /\ stdout = <<>>
    /\ files = <<>>
    /\ status = Running

\* lines 303-306
Usage ==
    /\ pc = "start" /\ url = None
    /\ stdout' = <<Line("usage", None), Line("example", None)>>
    /\ status' = Exit(1)
    /\ pc' = "exit"
    /\ UNCHANGED <<url, html, soup, addr, limit, conv, ret, files>>

\* lines 309-310: fetch_html returns the content of the response
FetchReturns ==
    /\ pc = "start" /\ url # None
    /\ \E page \in Pages : html' = Fetched(page)
    /\ pc' = "fetched"
    /\ UNCHANGED <<url, soup, addr, limit, conv, ret, stdout, files, status>>

\* lines 311-313: requests.get or raise_for_status raised a RequestException
FetchRaises ==
    /\ pc = "start" /\ url # None
    /\ stdout' = <<Line("error", None)>>
    /\ status' = Exit(2)
    /\ pc' = "exit"
    /\ UNCHANGED <<url, html, soup, addr, limit, conv, ret, files>>

\* line 315: data = parse_property(url, html); a ValueError that escapes it ends the
\* process with a traceback and exit status 1
CallParse ==
    /\ pc = "fetched"
    /\ soup' = html[1]
    /\ IF parse_property_raises(url, html[1])
       THEN /\ pc' = "exit"
            /\ status' = Exit(1)
            /\ ret' = ret
       ELSE /\ pc' = "parsed"
            /\ status' = status
            /\ ret' = parse_property(url, html[1], conv)
    /\ UNCHANGED <<url, html, addr, limit, conv, stdout, files>>

\* line 318
PrintData ==
    /\ pc = "parsed"
    /\ stdout' = Append(stdout, Line("data", ret))
    /\ pc' = "printed"
    /\ UNCHANGED <<url, html, soup, addr, limit, conv, ret, files, status>>

\* lines 319-320
WriteOutJson ==
    /\ pc = "printed"
    /\ files' = Append(files, File("out.json", ret))
    /\ pc' = "out_json"
    /\ UNCHANGED <<url, html, soup, addr, limit, conv, ret, stdout, status>>

\* lines 321-322
WritePageHtml ==
    /\ pc = "out_json"
    /\ files' = Append(files, File("page.html", html[1]))
    /\ pc' = "page_html"
    /\ UNCHANGED <<url, html, soup, addr, limit, conv, ret, stdout, status>>

\* line 323, and the end of the process
PrintWrote ==
    /\ pc = "page_html"
    /\ stdout' = Append(stdout, Line("wrote", None))
    /\ status' = Exit(0)
    /\ pc' = "exit"
    /\ UNCHANGED <<url, html, soup, addr, limit, conv, ret, files>>

Next ==
    \/ Usage
    \/ FetchReturns
    \/ FetchRaises
    \/ CallParse
    \/ PrintData
    \/ WriteOutJson
    \/ WritePageHtml
    \/ PrintWrote

Spec == Init /\ [][Next]_vars

\* ------------------------------------------------------------ claim C8
Lines(out) == [i \in 1..Len(out) |-> out[i].line]

Names(fs) == [i \in 1..Len(fs) |-> fs[i].name]

\* C8: a failed fetch ends in the error payload and exit status 2, with no parse, no
\* record printed and no file written; after a successful fetch the record is always
\* produced and printed, and that before out.json and page.html are written.
C8_Original ==
    /\ (pc = "exit" /\ url # None /\ html = NotFetched) =>
           /\ status = Exit(2)
           /\ Lines(stdout) = <<"error">>
           /\ files = <<>>
           /\ soup = EmptySoup /\ ret = None
    /\ (pc = "exit" /\ html # NotFetched) =>
           /\ Lines(stdout) = <<"data", "wrote">>
           /\ Names(files) = <<"out.json", "page.html">>
    /\ files # <<>> => (stdout # <<>> /\ stdout[1].line = "data")

====
